---- MODULE Spec2Model ----
(***************************************************************************)
(* policy-core: the request-context type-state machine (Ctx<Unauthed> ->   *)
(* Ctx<Authed> -> Ctx<Authorized>), the capability tokens, the policy gate *)
(* that mints them, and the capability-gated facades.                      *)
(***************************************************************************)
EXTENDS Integers, Sequences, FiniteSets, TLC

\* ------------------------------------------------------------------------
\* Bounds of the model
\* ------------------------------------------------------------------------
MaxRequire == 2
MaxRequests == 1
\* chars of an untrusted input, and the largest max_len of a StringSanitizer
MaxStrLen == 5
MaxLen == 3
\* calls made on one outbound-call facade when the facade is studied alone
MaxCalls == 2
\* chars of a value wrapped in a Secret
MaxSecretLen == 3
\* the longest string supplied for a field of an AuditEvent, in chars
MaxFieldLen == 2
\* values in a VecSink
MaxSink == 3
\* events in an AuditTrail
MaxTrail == 2

\* ------------------------------------------------------------------------
\* Option<T> and Result<T, E>
\* ------------------------------------------------------------------------
None == << >>
Some(x) == << x >>
is_some(o) == o # << >>
is_none(o) == o = << >>
unwrap(o) == o[1]

Ok(v) == [ok |-> TRUE, val |-> v]
Err(e) == [ok |-> FALSE, val |-> e]
Unit == "()"

\* ------------------------------------------------------------------------
\* Input domains
\* ------------------------------------------------------------------------
RequestIds == {"req-1", "req-2"}
Principals == {[id |-> "u1", name |-> "Alice"], [id |-> "u2", name |-> "Bob"]}
OptPrincipals == {None} \cup {Some(p) : p \in Principals}

\* policy.rs, mod actions
LOG == "log"
HTTP == "http"
AUDIT == "audit"
ActionNames == {LOG, HTTP, AUDIT, "db"}

\* policy.rs, enum PolicyReq
ReqAuthenticated == [tag |-> "Authenticated", action |-> ""]
ReqAuthorized(a) == [tag |-> "Authorized", action |-> a]
PolicyReqs == {ReqAuthenticated} \cup {ReqAuthorized(a) : a \in ActionNames}

\* http.rs, enum HttpMethod
HttpMethods == {"Get", "Post", "Put", "Delete", "Patch"}
\* the methods the host calls: one that sends no body and one that sends one
\* (put and patch record as post does, delete as get does)
CalledMethods == {m \in HttpMethods : m \in {"Get", "Post"}}
\* logging.rs, the four severities of PolicyLog
LogLevels == {"info", "warn", "error", "debug"}

\* ------------------------------------------------------------------------
\* error.rs
\* ------------------------------------------------------------------------
Violation(kind, message) == [kind |-> kind, message |-> message]

\* ------------------------------------------------------------------------
\* capability.rs, audit/capability.rs: zero-sized proof tokens
\* ------------------------------------------------------------------------
LogCapNew == "LogCap"
HttpCapNew == "HttpCap"
AuditCapNew == "AuditCap"

\* ------------------------------------------------------------------------
\* logging.rs, http.rs, audit/policy_audit.rs: facade constructors
\* ------------------------------------------------------------------------
PolicyLogNew(request_id) ==
    [kind |-> "log", request_id |-> request_id, requests |-> << >>]
\* PolicyHttp::new() takes no argument and PolicyHttp has no request id field
PolicyHttpNew == [kind |-> "http", requests |-> << >>]
PolicyAuditNew ==
    [kind |-> "audit", request_id |-> "", requests |-> << >>]

\* ------------------------------------------------------------------------
\* context.rs
\* ------------------------------------------------------------------------
new_unauthed(request_id) ==
    [state |-> "Unauthed", request_id |-> request_id, principal |-> None,
     log_cap |-> None, http_cap |-> None, audit_cap |-> None]

\* authenticate without the check for an absent principal
authenticate_unchecked(self, principal) ==
    Ok([state |-> "Authed", request_id |-> self.request_id, principal |-> principal,
        log_cap |-> None, http_cap |-> None, audit_cap |-> None])

\* authenticate that hands the new context a logging token
authenticate_granting(self, principal) ==
    IF is_some(principal)
    THEN Ok([state |-> "Authed", request_id |-> self.request_id,
             principal |-> Some(unwrap(principal)),
             log_cap |-> Some(LogCapNew), http_cap |-> None, audit_cap |-> None])
    ELSE Err(Violation("Unauthenticated",
                       "Authentication required: principal not provided"))

authenticate(self, principal) ==
    IF is_some(principal)
    THEN Ok([state |-> "Authed", request_id |-> self.request_id,
             principal |-> Some(unwrap(principal)),
             log_cap |-> None, http_cap |-> None, audit_cap |-> None])
    ELSE Err(Violation("Unauthenticated",
                       "Authentication required: principal not provided"))

\* authorize that stays in the Authed state
authorize_in_place(self, log_cap, http_cap, audit_cap) ==
    [state |-> "Authed", request_id |-> self.request_id, principal |-> self.principal,
     log_cap |-> log_cap, http_cap |-> http_cap, audit_cap |-> audit_cap]

\* authorize that fills in a token the caller did not supply
authorize_minting(self, log_cap, http_cap, audit_cap) ==
    [state |-> "Authorized", request_id |-> self.request_id,
     principal |-> self.principal,
     log_cap |-> IF is_none(log_cap) THEN Some(LogCapNew) ELSE log_cap,
     http_cap |-> http_cap, audit_cap |-> audit_cap]

authorize(self, log_cap, http_cap, audit_cap) ==
    [state |-> "Authorized", request_id |-> self.request_id,
     principal |-> self.principal,
     log_cap |-> log_cap, http_cap |-> http_cap, audit_cap |-> audit_cap]

new_authorized(request_id, principal, log_cap, http_cap, audit_cap) ==
    [state |-> "Authorized", request_id |-> request_id,
     principal |-> principal,
     log_cap |-> log_cap, http_cap |-> http_cap, audit_cap |-> audit_cap]

log_cap(self) == self.log_cap
http_cap(self) == self.http_cap
audit_cap(self) == self.audit_cap

\* log() whose facade is labelled with the principal id
log_principal_id(self) ==
    IF is_some(self.log_cap)
    THEN Ok(PolicyLogNew(IF is_some(self.principal) THEN unwrap(self.principal).id ELSE ""))
    ELSE Err(Violation("MissingLogCapability", "Logging capability not granted"))

log(self) ==
    IF is_some(self.log_cap)
    THEN Ok(PolicyLogNew(self.request_id))
    ELSE Err(Violation("MissingLogCapability", "Logging capability not granted"))

\* http() that checks the logging token
http_checking_log_cap(self) ==
    IF is_some(self.log_cap)
    THEN Ok(PolicyHttpNew)
    ELSE Err(Violation("MissingHttpCapability", "HTTP capability not granted"))

http(self) ==
    IF is_some(self.http_cap)
    THEN Ok(PolicyHttpNew)
    ELSE Err(Violation("MissingHttpCapability", "HTTP capability not granted"))

\* audit() without the capability check
audit_unchecked(self) == Ok(PolicyAuditNew)

audit(self) ==
    IF is_some(self.audit_cap)
    THEN Ok(PolicyAuditNew)
    ELSE Err(Violation("MissingAuditCapability", "Audit capability not granted"))

\* ------------------------------------------------------------------------
\* gate.rs
\* ------------------------------------------------------------------------
PolicyGateNew(meta) == [meta |-> meta, requirements |-> << >>]

same_requirement(a, b) ==
    \/ a.tag = "Authenticated" /\ b.tag = "Authenticated"
    \/ a.tag = "Authorized" /\ b.tag = "Authorized" /\ a.action = b.action

\* require without the deduplication
require_push(self, req) ==
    [self EXCEPT !.requirements = Append(@, req)]

require(self, req) ==
    IF ~ \E i \in 1..Len(self.requirements) :
             same_requirement(self.requirements[i], req)
    THEN [self EXCEPT !.requirements = Append(@, req)]
    ELSE self

\* validate_one without the principal check on Authorized { action }
validate_one_authenticated_only(self, req) ==
    IF req.tag = "Authenticated" /\ is_none(self.meta.principal)
    THEN Err(Violation("Unauthenticated", "Authentication required"))
    ELSE Ok(Unit)

\* validate_one that authorizes the standard actions only
validate_one_known_actions(self, req) ==
    IF is_none(self.meta.principal)
    THEN Err(Violation("Unauthenticated", "Authentication required"))
    ELSE IF req.tag = "Authorized" /\ req.action \notin {LOG, HTTP, AUDIT}
         THEN Err(Violation("Unauthorized", "Action not permitted"))
         ELSE Ok(Unit)

validate_one(self, req) ==
    IF req.tag = "Authenticated"
    THEN IF is_none(self.meta.principal)
         THEN Err(Violation("Unauthenticated", "Authentication required"))
         ELSE Ok(Unit)
    ELSE IF is_none(self.meta.principal)
         THEN Err(Violation("Unauthenticated",
                            "Cannot authorize unauthenticated principal"))
         ELSE Ok(Unit)

\* validate_all that keeps going and returns the last violation
validate_all_last(self) ==
    LET failing == {i \in 1..Len(self.requirements) :
                        ~ validate_one(self, self.requirements[i]).ok}
        final == CHOOSE i \in failing : \A j \in failing : i >= j
    IN  IF failing = {} THEN Ok(Unit)
        ELSE validate_one(self, self.requirements[final])

validate_all(self) ==
    LET failing == {i \in 1..Len(self.requirements) :
                        ~ validate_one(self, self.requirements[i]).ok}
        first == CHOOSE i \in failing : \A j \in failing : i <= j
    IN  IF failing = {} THEN Ok(Unit)
        ELSE validate_one(self, self.requirements[first])

\* requires_authorization that does not compare the action name
requires_authorization_any(self, action) ==
    \E i \in 1..Len(self.requirements) : self.requirements[i].tag = "Authorized"

\* requires_authorization that looks at the first requirement only
requires_authorization_first(self, action) ==
    /\ self.requirements # << >>
    /\ self.requirements[1].tag = "Authorized"
    /\ self.requirements[1].action = action

requires_authorization(self, action) ==
    \E i \in 1..Len(self.requirements) :
        /\ self.requirements[i].tag = "Authorized"
        /\ self.requirements[i].action = action

build(self) ==
    LET checked == validate_all(self)
        log_cap_ == IF requires_authorization(self, LOG)
                    THEN Some(LogCapNew) ELSE None
        http_cap_ == IF requires_authorization(self, HTTP)
                     THEN Some(HttpCapNew) ELSE None
        audit_cap_ == IF requires_authorization(self, AUDIT)
                      THEN Some(AuditCapNew) ELSE None
    IN  IF ~ checked.ok THEN checked
        ELSE Ok(new_authorized(self.meta.request_id, self.meta.principal,
                               log_cap_, http_cap_, audit_cap_))

\* ------------------------------------------------------------------------
\* web/adapter.rs
\* ------------------------------------------------------------------------
RequestAdapterNew(request_id) == [request_id |-> request_id, principal |-> None]
set_principal(self, principal) == [self EXCEPT !.principal = principal]
extract_metadata(self) ==
    [request_id |-> self.request_id, principal |-> self.principal]

\* ------------------------------------------------------------------------
\* web/middleware.rs
\* ------------------------------------------------------------------------
extract_unauthed(adapter_) ==
    new_unauthed(extract_metadata(adapter_).request_id)

extract_authed(adapter_) ==
    LET meta == extract_metadata(adapter_)
        unauthed == new_unauthed(meta.request_id)
    IN  authenticate(unauthed, meta.principal)

\* ------------------------------------------------------------------------
\* http.rs
\* ------------------------------------------------------------------------
HasBody(method) == method \in {"Post", "Put", "Patch"}

\* ------------------------------------------------------------------------
\* tainted.rs, verified.rs
\* ------------------------------------------------------------------------
TaintedNew(value) == [tainted |-> value]
tainted_into_inner(self) == self.tainted
new_unchecked(value) == [verified |-> value]
as_ref(self) == self.verified

\* ------------------------------------------------------------------------
\* sanitizer.rs
\* ------------------------------------------------------------------------
\* A String is a sequence of chars; the chars of the model, one or two of
\* each class the sanitizer tells apart:
\*   U+0061 'a' and U+00E9 (two bytes in UTF-8): printable
\*   U+0020 space: whitespace, not a control character
\*   U+000A line feed (C0) and U+0085 next line (C1, two bytes): whitespace
\*     and control character
\*   U+0000 (C0) and U+007F (DEL): control character, not whitespace
Chars == {"U+0061", "U+00E9", "U+0020", "U+000A", "U+0085", "U+0000", "U+007F"}

\* char::is_whitespace (the White_Space property, what str::trim removes)
is_whitespace(c) == c \in {"U+0020", "U+000A", "U+0085"}
\* char::is_control (the general category Cc)
is_control(c) == c \in {"U+000A", "U+0085", "U+0000", "U+007F"}
\* char::len_utf8
len_utf8(c) == IF c \in {"U+00E9", "U+0085"} THEN 2 ELSE 1

RECURSIVE trim_start(_)
trim_start(s) ==
    IF s # << >> /\ is_whitespace(Head(s)) THEN trim_start(Tail(s)) ELSE s

RECURSIVE trim_end(_)
trim_end(s) ==
    IF s # << >> /\ is_whitespace(s[Len(s)])
    THEN trim_end(SubSeq(s, 1, Len(s) - 1))
    ELSE s

\* trim that removes leading whitespace only
trim_start_only(s) == trim_start(s)

\* trim that removes at most one whitespace char at each end
trim_one_each_end(s) ==
    LET t == IF s # << >> /\ is_whitespace(Head(s)) THEN Tail(s) ELSE s
    IN  IF t # << >> /\ is_whitespace(t[Len(t)])
        THEN SubSeq(t, 1, Len(t) - 1)
        ELSE t

\* str::trim
trim(s) == trim_end(trim_start(s))

\* String::len, the length in bytes
RECURSIVE len(_)
len(s) == IF s = << >> THEN 0 ELSE len_utf8(Head(s)) + len(Tail(s))

SanitizationError(kind, message) == [kind |-> kind, message |-> message]

DefaultMaxLen == 256
\* a panic: the call returns no value, the thread unwinds with the message
Panic(message) == [panic |-> message]

\* a constructor without the assertion
StringSanitizerNew_unchecked(max_len) == [max_len |-> max_len]

\* assert!(max_len > 0, "max_len must be greater than 0"); Self { max_len }
StringSanitizerNew(max_len) ==
    IF max_len > 0 THEN [max_len |-> max_len]
                   ELSE Panic("max_len must be greater than 0")
default_limits == StringSanitizerNew(DefaultMaxLen)

\* is_control_char that knows the C0 range and DEL only
is_control_char_ascii(c) == c \in {"U+000A", "U+0000", "U+007F"}

is_control_char(c) == is_control(c) \/ c = "U+007F"

\* sanitize that rejects a string of exactly max_len bytes
sanitize_off_by_one(self, input) ==
    LET raw == tainted_into_inner(input)
        trimmed == trim(raw)
    IN  IF trimmed = << >>
        THEN Err(SanitizationError("Empty",
                    << "input is empty or contains only whitespace" >>))
        ELSE IF \E i \in 1..Len(trimmed) : is_control_char(trimmed[i])
        THEN Err(SanitizationError("ContainsControlChars",
                    << "input contains control or non-printable characters" >>))
        ELSE IF len(trimmed) >= self.max_len
        THEN Err(SanitizationError("TooLong",
                    << "input exceeds maximum length of ", self.max_len >>))
        ELSE Ok(new_unchecked(trimmed))

\* sanitize whose messages quote the rejected input
sanitize_quoting(self, input) ==
    LET raw == tainted_into_inner(input)
        trimmed == trim(raw)
    IN  IF trimmed = << >>
        THEN Err(SanitizationError("Empty",
                    << "input is empty or contains only whitespace", raw >>))
        ELSE IF \E i \in 1..Len(trimmed) : is_control_char(trimmed[i])
        THEN Err(SanitizationError("ContainsControlChars",
                    << "input contains control or non-printable characters", raw >>))
        ELSE IF len(trimmed) > self.max_len
        THEN Err(SanitizationError("TooLong",
                    << "input exceeds maximum length of ", self.max_len, raw >>))
        ELSE Ok(new_unchecked(trimmed))

\* sanitize that checks the length before the control characters
sanitize_length_first(self, input) ==
    LET raw == tainted_into_inner(input)
        trimmed == trim(raw)
    IN  IF trimmed = << >>
        THEN Err(SanitizationError("Empty",
                    << "input is empty or contains only whitespace" >>))
        ELSE IF len(trimmed) > self.max_len
        THEN Err(SanitizationError("TooLong",
                    << "input exceeds maximum length of ", self.max_len >>))
        ELSE IF \E i \in 1..Len(trimmed) : is_control_char(trimmed[i])
        THEN Err(SanitizationError("ContainsControlChars",
                    << "input contains control or non-printable characters" >>))
        ELSE Ok(new_unchecked(trimmed))

sanitize(self, input) ==
    LET raw == tainted_into_inner(input)
        trimmed == trim(raw)
    IN  IF trimmed = << >>
        THEN Err(SanitizationError("Empty",
                    << "input is empty or contains only whitespace" >>))
        ELSE IF \E i \in 1..Len(trimmed) : is_control_char(trimmed[i])
        THEN Err(SanitizationError("ContainsControlChars",
                    << "input contains control or non-printable characters" >>))
        ELSE IF len(trimmed) > self.max_len
        THEN Err(SanitizationError("TooLong",
                    << "input exceeds maximum length of ", self.max_len >>))
        ELSE Ok(new_unchecked(trimmed))

\* ------------------------------------------------------------------------
\* http.rs: PolicyHttp
\* ------------------------------------------------------------------------
\* a record_request that counts the chars of the body instead of its bytes
record_request_char_count(self, method, url, body) ==
    [self EXCEPT !.requests =
        Append(@, [method |-> method, url |-> as_ref(url),
                   body_len |-> Len(as_ref(body))])]

\* an HttpRequest holds method, url and body_len; body_len is String::len
record_request(self, method, url, body) ==
    [self EXCEPT !.requests =
        Append(@, [method |-> method, url |-> as_ref(url),
                   body_len |-> len(as_ref(body))])]

http_get(self, url) == record_request(self, "Get", url, new_unchecked(<< >>))
http_post(self, url, body) == record_request(self, "Post", url, body)
http_put(self, url, body) == record_request(self, "Put", url, body)
http_delete(self, url) == record_request(self, "Delete", url, new_unchecked(<< >>))
http_patch(self, url, body) == record_request(self, "Patch", url, body)

\* the method named by `method`, called with the url and (where the method
\* takes one) the body
http_call(self, method, url, body) ==
    CASE method = "Get" -> http_get(self, url)
      [] method = "Post" -> http_post(self, url, body)
      [] method = "Put" -> http_put(self, url, body)
      [] method = "Delete" -> http_delete(self, url)
      [] method = "Patch" -> http_patch(self, url, body)

request_count(self) == Len(self.requests)
requests(self) == self.requests

\* contents of Verified<String> values handed to the HTTP facade
VerifiedUrl == new_unchecked(<< "U+0061" >>)
VerifiedBody == new_unchecked(<< "U+0061", "U+00E9" >>)

\* ------------------------------------------------------------------------
\* secret.rs: Secret<String>; the chars of a secret and of the marker are
\* written as themselves
\* ------------------------------------------------------------------------
SecretNew(value) == [inner |-> value]
expose_secret(self) == self.inner

\* f.write_str("[REDACTED]")
Redacted == << "[", "R", "E", "D", "A", "C", "T", "E", "D", "]" >>

\* a derived Debug: the wrapped value is written out
fmt_debug_derived(self) == << "S", "(" >> \o self.inner \o << ")" >>

fmt_debug(self) == Redacted
fmt_display(self) == Redacted

\* str::contains
contains(haystack, needle) ==
    \E i \in 0..(Len(haystack) - Len(needle)) :
        SubSeq(haystack, i + 1, i + Len(needle)) = needle

\* ------------------------------------------------------------------------
\* sink.rs
\* ------------------------------------------------------------------------
SinkError(kind) == [kind |-> kind, message |-> None]
VecSinkNew == << >>
vec_sink_len(self) == Len(self)
vec_sink_is_empty(self) == self = << >>
vec_sink_iter(self) == self
vec_sink_to_vec(self) == self
\* sink that puts the new value in front
vec_sink_sink_front(self, value) == [sink |-> << as_ref(value) >> \o self, returned |-> Ok(Unit)]

\* Sink<String> for VecSink: the new contents and the result
vec_sink_sink(self, value) == [sink |-> Append(self, as_ref(value)), returned |-> Ok(Unit)]
\* sink_untrusted that stores the value before it fails
sink_untrusted_storing(self, value) ==
    [sink |-> Append(self, tainted_into_inner(value)), returned |-> Err(SinkError("Unverified"))]

sink_untrusted(self, value) == [sink |-> self, returned |-> Err(SinkError("Unverified"))]

\* ------------------------------------------------------------------------
\* audit/trail.rs
\* ------------------------------------------------------------------------
AuditTrailNew == << >>

\* record that puts the event in front
record_front(self, event) == << event >> \o self

\* AuditTrail::record
record(self, event) == Append(self, event)
trail_events(self) == self
trail_iter(self) == self
\* with_events(|events| events.len())
trail_with_events(self) == Len(self)
trail_len(self) == Len(self)
trail_is_empty(self) == self = << >>
clear(self) == << >>

\* ------------------------------------------------------------------------
\* audit/event.rs
\* ------------------------------------------------------------------------
\* a scrub that drops the control characters instead of replacing them
sanitize_field_dropping(value) ==
    SelectSeq(value, LAMBDA c : ~(is_control(c) \/ c = "U+007F"))

sanitize_field(value) ==
    [i \in 1..Len(value) |->
        IF is_control(value[i]) \/ value[i] = "U+007F" THEN "U+0020" ELSE value[i]]

AuditEventNew(request_id, principal, kind, outcome) ==
    [request_id |-> sanitize_field(request_id),
     principal |-> IF is_some(principal) THEN Some(sanitize_field(unwrap(principal))) ELSE None,
     kind |-> kind, outcome |-> outcome,
     action |-> None, resource_id |-> None, method |-> None,
     redacted_url |-> None, body_len |-> None]

with_action(self, action) == [self EXCEPT !.action = Some(sanitize_field(action))]

with_resource_id(self, resource_id) ==
    [self EXCEPT !.resource_id = Some(sanitize_field(resource_id))]

with_method(self, method) == [self EXCEPT !.method = Some(sanitize_field(method))]

with_redacted_url(self, url) == [self EXCEPT !.redacted_url = Some(sanitize_field(url))]

with_body_len(self, n) == [self EXCEPT !.body_len = Some(n)]

\* ------------------------------------------------------------------------
\* audit/policy_audit.rs
\* ------------------------------------------------------------------------
\* PolicyAudit::emit_and_record: the trail after the call (the event is also
\* handed to tracing)
emit_and_record(self, event, trail_) == record(trail_, event)

\* ------------------------------------------------------------------------
\* State
\* ------------------------------------------------------------------------
VARIABLES
    adapter,    \* the RequestAdapter of the request being served
    gate,       \* Option<PolicyGate>: the gate under construction
    ctxs,       \* binding -> Option<Ctx<S>>: the context values the host owns
    facades,    \* kind -> Option<facade>: the facades the host holds, each
                \* borrowing the context binding it was obtained from
    last,       \* the operation just performed, its inputs and its result
    sanitizer,  \* the StringSanitizer the host uses
    tainted,    \* Option<Tainted<String>>: the untrusted input the host holds
    verified,   \* Option<Verified<String>>: the last value a sanitizer returned
    sink,       \* the VecSink the host writes to
    trail,      \* the AuditTrail the host records to
    supplied,   \* the string the host supplies for the fields of an AuditEvent
    audit_event, \* Option<AuditEvent>: the event the host is building
    secret,     \* Option<Secret<String>>: the secret the host holds
    other_http, \* Option<facade>: a second PolicyHttp the host holds
    snapshot    \* Option<Vec>: the copy of an accumulator's contents the host
                \* took with events() / iter() / to_vec() / requests()

\* the values the host holds beside the taint pipeline
held == << supplied, audit_event, secret, other_http, snapshot >>

\* nothing held: no string supplied, no event under construction, no secret,
\* no second facade, no snapshot
InitHeld ==
    /\ supplied = << >>
    /\ audit_event = None
    /\ secret = None
    /\ other_http = None
    /\ snapshot = None

\* the taint pipeline and the audit trail
pipeline == << sanitizer, tainted, verified, sink, trail, held >>

vars == << adapter, gate, ctxs, facades, last, pipeline >>

\* the host's two context bindings, as in web/example_handler.rs:
\* `extraction.context` (from the middleware) and `ctx` (from the gate);
\* a binding is bound once (`let`), and emptied only when its value is moved
CtxIds == {"extraction", "ctx"}
FacadeKinds == {"log", "http", "audit"}

NoEffect == None

Op(op, ctx, arg, result, emitted) ==
    [op |-> op, ctx |-> ctx, arg |-> arg, result |-> result, emitted |-> emitted]

InState(c, s) == is_some(ctxs[c]) /\ unwrap(ctxs[c]).state = s

\* the tokens the host can pass to authorize: None, or a copy taken out of an
\* Authorized context through the log_cap / http_cap / audit_cap getters
Obtainable(field) ==
    {None} \cup {unwrap(ctxs[c])[field] : c \in {d \in CtxIds : InState(d, "Authorized")}}

Init ==
    /\ adapter \in {RequestAdapterNew(r) : r \in RequestIds}
    /\ gate = None
    /\ ctxs = [c \in CtxIds |-> None]
    /\ facades = [k \in FacadeKinds |-> None]
    /\ last = Op("init", "", None, Ok(Unit), NoEffect)
    /\ sanitizer = default_limits
    /\ tainted = None
    /\ verified = None
    /\ sink = VecSinkNew
    /\ trail = AuditTrailNew
    /\ InitHeld

\* RequestAdapter::set_principal
SetPrincipal(p) ==
    /\ adapter.principal # p
    /\ adapter' = set_principal(adapter, p)
    /\ last' = Op("set_principal", "", p, Ok(Unit), NoEffect)
    /\ UNCHANGED << gate, ctxs, facades, pipeline >>

\* let extraction = web::extract_unauthed(&adapter)
ExtractUnauthed ==
    /\ is_none(ctxs["extraction"])
    /\ ctxs' = [ctxs EXCEPT !["extraction"] = Some(extract_unauthed(adapter))]
    /\ last' = Op("extract_unauthed", "extraction", None, Ok(Unit), NoEffect)
    /\ UNCHANGED << adapter, gate, facades, pipeline >>

\* let extraction = web::extract_authed(&adapter)?
ExtractAuthed ==
    LET r == extract_authed(adapter) IN
    /\ is_none(ctxs["extraction"])
    /\ ctxs' = [ctxs EXCEPT !["extraction"] = IF r.ok THEN Some(r.val) ELSE None]
    /\ last' = Op("extract_authed", "extraction", adapter.principal, r, NoEffect)
    /\ UNCHANGED << adapter, gate, facades, pipeline >>

\* Ctx<Unauthed>::authenticate(self, principal): self is consumed
Authenticate(c, p) ==
    LET r == authenticate(unwrap(ctxs[c]), p) IN
    /\ InState(c, "Unauthed")
    /\ ctxs' = [ctxs EXCEPT ![c] = IF r.ok THEN Some(r.val) ELSE None]
    /\ last' = Op("authenticate", c, p, r, NoEffect)
    /\ UNCHANGED << adapter, gate, facades, pipeline >>

\* Ctx<Authed>::authorize(self, log_cap, http_cap, audit_cap): self is consumed
Authorize(c, l, h, a) ==
    /\ InState(c, "Authed")
    /\ ctxs' = [ctxs EXCEPT ![c] = Some(authorize(unwrap(ctxs[c]), l, h, a))]
    /\ last' = Op("authorize", c, << l, h, a >>, Ok(Unit), NoEffect)
    /\ UNCHANGED << adapter, gate, facades, pipeline >>

\* PolicyGate::new(adapter.extract_metadata())
GateNew ==
    /\ is_none(gate)
    /\ gate' = Some(PolicyGateNew(extract_metadata(adapter)))
    /\ last' = Op("gate_new", "", None, Ok(Unit), NoEffect)
    /\ UNCHANGED << adapter, ctxs, facades, pipeline >>

\* PolicyGate::require(self, policy)
Require(req) ==
    /\ is_some(gate)
    /\ Len(require(unwrap(gate), req).requirements) <= MaxRequire
    /\ gate' = Some(require(unwrap(gate), req))
    /\ last' = Op("require", "", req, Ok(Unit), NoEffect)
    /\ UNCHANGED << adapter, ctxs, facades, pipeline >>

\* the gate `g` is consumed by build; on success the host binds the result
BuildFrom(g) ==
    LET r == build(g) IN
    /\ is_none(ctxs["ctx"])
    /\ ctxs' = [ctxs EXCEPT !["ctx"] = IF r.ok THEN Some(r.val) ELSE None]
    /\ last' = Op("build", "ctx", g, r, NoEffect)
    /\ UNCHANGED << adapter, facades, pipeline >>

\* let ctx = gate.build()?
Build ==
    /\ is_some(gate)
    /\ BuildFrom(unwrap(gate))
    /\ gate' = None

RECURSIVE require_all(_, _)
require_all(g, calls) ==
    IF calls = << >> THEN g
    ELSE require_all(require(g, Head(calls)), Tail(calls))

\* let ctx = PolicyGate::new(meta).require(..) ... .build()?  as one expression
BuildChain(calls) ==
    /\ is_none(gate)
    /\ BuildFrom(require_all(PolicyGateNew(extract_metadata(adapter)), calls))
    /\ UNCHANGED gate

\* a facade accessor on &self: on success the host binds the facade
Facade(c, k, r) ==
    /\ InState(c, "Authorized")
    /\ facades' = [facades EXCEPT ![k] =
                      IF r.ok THEN Some([ctx |-> c, f |-> r.val]) ELSE None]
    /\ last' = Op(k, c, None, r, NoEffect)
    /\ UNCHANGED << adapter, gate, ctxs, pipeline >>

\* let logger = ctx.log()?
Log(c) == Facade(c, "log", log(unwrap(ctxs[c])))
\* let http = ctx.http()?
Http(c) == Facade(c, "http", http(unwrap(ctxs[c])))
\* let audit = ctx.audit()?
Audit(c) == Facade(c, "audit", audit(unwrap(ctxs[c])))

\* a token getter on &self: ctx.log_cap() / http_cap() / audit_cap()
CapGetter(c, getter, token) ==
    /\ InState(c, "Authorized")
    /\ last' = Op(getter, c, None, Ok(token), NoEffect)
    /\ UNCHANGED << adapter, gate, ctxs, facades, pipeline >>

\* PolicyLog::info / warn / error / debug: one record handed to tracing
LogEmit(level) ==
    LET b == unwrap(facades["log"]) IN
    /\ is_some(facades["log"])
    /\ last' = Op(level, b.ctx, None, Ok(Unit),
                  Some([effect |-> "log", request_id |-> b.f.request_id]))
    /\ UNCHANGED << adapter, gate, ctxs, facades, pipeline >>

\* PolicyHttp::get / post / put / delete / patch on a facade that has recorded
\* fewer than n requests; the record made carries no request id
HttpCallWithin(n, method, url, body) ==
    LET b == unwrap(facades["http"]) IN
    /\ is_some(facades["http"])
    /\ Len(b.f.requests) < n
    /\ facades' = [facades EXCEPT !["http"] =
                      Some([b EXCEPT !.f = http_call(@, method, url, body)])]
    /\ last' = Op(method, b.ctx, IF HasBody(method) THEN << url, body >> ELSE << url >>,
                  Ok(Unit), Some([effect |-> "http", request_id |-> None]))
    /\ UNCHANGED << adapter, gate, ctxs, pipeline >>

HttpCall(method, url, body) == HttpCallWithin(MaxRequests, method, url, body)

\* PolicyAudit::emit(&event): one structured record handed to tracing
AuditEmit(event_request_id) ==
    LET b == unwrap(facades["audit"]) IN
    /\ is_some(facades["audit"])
    /\ last' = Op("emit", b.ctx, None, Ok(Unit),
                  Some([effect |-> "audit", request_id |-> event_request_id]))
    /\ UNCHANGED << adapter, gate, ctxs, facades, pipeline >>

\* the requirement chains the handlers use: nothing, or Authenticated
\* followed by Authorized::for_action for a choice of the standard actions
Chains ==
    {<< >>} \cup
    {<< ReqAuthenticated >> \o
       [i \in 1..Len(s) |-> ReqAuthorized(s[i])] :
         s \in {SelectSeq(<< LOG, HTTP, AUDIT >>, LAMBDA a : a \in S) :
                  S \in SUBSET {LOG, HTTP, AUDIT}}}

Next ==
    \/ \E p \in OptPrincipals : SetPrincipal(p)
    \/ ExtractUnauthed
    \/ ExtractAuthed
    \/ \E c \in CtxIds, p \in OptPrincipals : Authenticate(c, p)
    \/ \E c \in CtxIds : \E l \in Obtainable("log_cap"), h \in Obtainable("http_cap"),
          a \in Obtainable("audit_cap") : Authorize(c, l, h, a)
    \/ \E calls \in Chains : BuildChain(calls)
    \/ \E c \in CtxIds : Log(c)
    \/ \E c \in CtxIds : Http(c)
    \/ \E c \in CtxIds : Audit(c)
    \/ \E level \in LogLevels : LogEmit(level)
    \/ \E m \in CalledMethods : HttpCall(m, VerifiedUrl, VerifiedBody)
    \/ \E r \in RequestIds : AuditEmit(r)

Spec == Init /\ [][Next]_vars

\* sanitizer.sanitize(tainted): the tainted value is consumed
Sanitize ==
    LET r == sanitize(sanitizer, unwrap(tainted)) IN
    /\ is_some(tainted)
    /\ tainted' = None
    /\ verified' = IF r.ok THEN Some(r.val) ELSE verified
    /\ last' = Op("sanitize", "", unwrap(tainted), r, NoEffect)
    /\ UNCHANGED << adapter, gate, ctxs, facades, sanitizer, sink, trail, held >>

\* Tainted::new(verified.as_ref().to_string())
Retaint ==
    /\ is_some(verified)
    /\ is_none(tainted)
    /\ tainted' = Some(TaintedNew(as_ref(unwrap(verified))))
    /\ last' = Op("retaint", "", None, Ok(Unit), NoEffect)
    /\ UNCHANGED << adapter, gate, ctxs, facades, sanitizer, verified, sink, trail, held >>

\* the strings of at most MaxStrLen chars
RawStrings == UNION {[1..n -> Chars] : n \in 0..MaxStrLen}

\* the sanitizer alone: StringSanitizer::new(max_len) and one untrusted input
InitSanitize ==
    /\ adapter = RequestAdapterNew("req-1")
    /\ gate = None
    /\ ctxs = [c \in CtxIds |-> None]
    /\ facades = [k \in FacadeKinds |-> None]
    /\ last = Op("init", "", None, Ok(Unit), NoEffect)
    /\ sanitizer \in {StringSanitizerNew(n) : n \in 1..MaxLen}
    /\ tainted \in {Some(TaintedNew(s)) : s \in RawStrings}
    /\ verified = None
    /\ sink = VecSinkNew
    /\ trail = AuditTrailNew
    /\ InitHeld

NextSanitize ==
    \/ Sanitize
    \/ Retaint

SpecSanitize == InitSanitize /\ [][NextSanitize]_vars

\* Tainted::new(raw): the host wraps an untrusted input
Taint(raw) ==
    /\ is_none(tainted)
    /\ tainted' = Some(TaintedNew(raw))
    /\ last' = Op("tainted_new", "", raw, Ok(Unit), NoEffect)
    /\ UNCHANGED << adapter, gate, ctxs, facades, sanitizer, verified, sink, trail, held >>

\* sink.sink(&verified)
Sink ==
    LET o == vec_sink_sink(sink, unwrap(verified)) IN
    /\ is_some(verified)
    /\ Len(sink) < MaxSink
    /\ sink' = o.sink
    /\ last' = Op("sink", "", unwrap(verified), o.returned, NoEffect)
    /\ UNCHANGED << adapter, gate, ctxs, facades, sanitizer, tainted, verified, trail, held >>

\* sink.sink_untrusted(tainted): the tainted value is moved into the call
SinkUntrusted ==
    LET o == sink_untrusted(sink, unwrap(tainted)) IN
    /\ is_some(tainted)
    /\ sink' = o.sink
    /\ tainted' = None
    /\ last' = Op("sink_untrusted", "", unwrap(tainted), o.returned, NoEffect)
    /\ UNCHANGED << adapter, gate, ctxs, facades, sanitizer, verified, trail, held >>

\* sink.len()
SinkLen ==
    /\ last' = Op("len", "", None, Ok(vec_sink_len(sink)), NoEffect)
    /\ UNCHANGED << adapter, gate, ctxs, facades, pipeline >>

\* sink.is_empty()
SinkIsEmpty ==
    /\ last' = Op("is_empty", "", None, Ok(vec_sink_is_empty(sink)), NoEffect)
    /\ UNCHANGED << adapter, gate, ctxs, facades, pipeline >>

\* the untrusted inputs of the sink runs: two that sanitize to different
\* values and one the sanitizer rejects
SinkInputs ==
    {<< "U+0061" >>, << "U+0020", "U+00E9" >>, << "U+0061", "U+0000" >>}

\* the taint pipeline: wrap, sanitize, sink
InitSink ==
    /\ adapter = RequestAdapterNew("req-1")
    /\ gate = None
    /\ ctxs = [c \in CtxIds |-> None]
    /\ facades = [k \in FacadeKinds |-> None]
    /\ last = Op("init", "", None, Ok(Unit), NoEffect)
    /\ sanitizer = default_limits
    /\ tainted = None
    /\ verified = None
    /\ sink = VecSinkNew
    /\ trail = AuditTrailNew
    /\ InitHeld

\* let sanitizer = StringSanitizer::new(max_len): a panic binds nothing
SanitizerNew(max_len) ==
    LET r == StringSanitizerNew(max_len) IN
    /\ sanitizer' = IF "panic" \in DOMAIN r THEN sanitizer ELSE r
    /\ last' = Op("sanitizer_new", "", max_len, r, NoEffect)
    /\ UNCHANGED << adapter, gate, ctxs, facades, tainted, verified, sink, trail, held >>

NextSink ==
    \/ \E n \in 0..MaxLen : SanitizerNew(n)
    \/ \E raw \in SinkInputs : Taint(raw)
    \/ Sanitize
    \/ Sink
    \/ SinkUntrusted
    \/ SinkLen
    \/ SinkIsEmpty

SpecSink == InitSink /\ [][NextSink]_vars

\* trail.record(event)
TrailRecord(event) ==
    /\ Len(trail) < MaxTrail
    /\ trail' = record(trail, event)
    /\ last' = Op("record", "", event, Ok(Unit), NoEffect)
    /\ UNCHANGED << adapter, gate, ctxs, facades, sanitizer, tainted, verified, sink, held >>

\* audit.emit_and_record(&event, &trail)
EmitAndRecord(event) ==
    LET b == unwrap(facades["audit"]) IN
    /\ is_some(facades["audit"])
    /\ Len(trail) < MaxTrail
    /\ trail' = emit_and_record(b.f, event, trail)
    /\ last' = Op("emit_and_record", b.ctx, event, Ok(Unit),
                  Some([effect |-> "audit", request_id |-> event.request_id]))
    /\ UNCHANGED << adapter, gate, ctxs, facades, sanitizer, tainted, verified, sink, held >>

\* a clear that reaches the Vec the host took from events() / iter(), as
\* if these had handed out the trail's own storage
TrailClear_through_snapshot ==
    /\ trail' = clear(trail)
    /\ snapshot' = IF is_some(snapshot) /\ unwrap(snapshot).of = "trail"
                   THEN Some([of |-> "trail", value |-> << >>]) ELSE snapshot
    /\ last' = Op("clear", "", None, Ok(Unit), NoEffect)
    /\ UNCHANGED << adapter, gate, ctxs, facades, sanitizer, tainted, verified, sink,
                    supplied, audit_event, secret, other_http >>

\* trail.clear()
TrailClear ==
    /\ trail' = clear(trail)
    /\ last' = Op("clear", "", None, Ok(Unit), NoEffect)
    /\ UNCHANGED << adapter, gate, ctxs, facades, sanitizer, tainted, verified, sink, held >>

\* trail.len()
TrailLen ==
    /\ last' = Op("trail_len", "", None, Ok(trail_len(trail)), NoEffect)
    /\ UNCHANGED << adapter, gate, ctxs, facades, pipeline >>

\* trail.is_empty()
TrailIsEmpty ==
    /\ last' = Op("trail_is_empty", "", None, Ok(trail_is_empty(trail)), NoEffect)
    /\ UNCHANGED << adapter, gate, ctxs, facades, pipeline >>

\* trail.iter()
TrailIter ==
    /\ last' = Op("trail_iter", "", None, Ok(trail_iter(trail)), NoEffect)
    /\ UNCHANGED << adapter, gate, ctxs, facades, pipeline >>

\* trail.events()
TrailEvents ==
    /\ last' = Op("trail_events", "", None, Ok(trail_events(trail)), NoEffect)
    /\ UNCHANGED << adapter, gate, ctxs, facades, pipeline >>

\* trail.with_events(|events| events.len())
TrailWithEvents ==
    /\ last' = Op("trail_with_events", "", None, Ok(trail_with_events(trail)), NoEffect)
    /\ UNCHANGED << adapter, gate, ctxs, facades, pipeline >>

\* the events the host builds: an admin action, and a denied authentication
\* without principal whose request id holds a line feed
AuditEvents ==
    {AuditEventNew(<< "U+0061" >>, Some(<< "U+00E9" >>), "AdminAction", "Success"),
     with_action(AuditEventNew(<< "U+0061" >>, Some(<< "U+00E9" >>), "StateChange", "Success"),
                 << "U+0061", "U+0000" >>),
     AuditEventNew(<< "U+0061", "U+000A" >>, None, "Authentication", "Denied")}

\* the audit facade and an AuditTrail
NextTrail ==
    \/ \E p \in OptPrincipals : SetPrincipal(p)
    \/ BuildChain(<< ReqAuthenticated, ReqAuthorized(AUDIT) >>)
    \/ Audit("ctx")
    \/ \E r \in RequestIds : AuditEmit(r)
    \/ \E e \in AuditEvents : EmitAndRecord(e)
    \/ \E e \in AuditEvents : TrailRecord(e)
    \/ TrailClear
    \/ TrailLen
    \/ TrailIsEmpty
    \/ TrailIter
    \/ TrailEvents
    \/ TrailWithEvents

SpecTrail == InitSink /\ [][NextTrail]_vars

\* AuditEvent::new(supplied, principal, kind, outcome): the principal is
\* absent or the supplied string
EventNew(with_principal, kind, outcome) ==
    /\ audit_event' = Some(AuditEventNew(supplied,
                           IF with_principal THEN Some(supplied) ELSE None,
                           kind, outcome))
    /\ last' = Op("event_new", "", supplied, Ok(Unit), NoEffect)
    /\ UNCHANGED << adapter, gate, ctxs, facades, sanitizer, tainted, verified,
                    sink, trail, supplied, secret, other_http, snapshot >>

\* a consuming setter of the builder chain: event = event.with_*(..)
EventWith(setter, built) ==
    /\ is_some(audit_event)
    /\ audit_event' = Some(built)
    /\ last' = Op(setter, "", supplied, Ok(Unit), NoEffect)
    /\ UNCHANGED << adapter, gate, ctxs, facades, sanitizer, tainted, verified,
                    sink, trail, supplied, secret, other_http, snapshot >>

\* the strings of at most MaxFieldLen chars
FieldStrings == UNION {[1..n -> Chars] : n \in 0..MaxFieldLen}

\* the kinds and outcomes the handlers report
EventKinds == {"Authentication", "AdminAction"}
EventOutcomes == {"Success", "Denied"}

\* the construction of one AuditEvent from one supplied string
InitEvent ==
    /\ adapter = RequestAdapterNew("req-1")
    /\ gate = None
    /\ ctxs = [c \in CtxIds |-> None]
    /\ facades = [k \in FacadeKinds |-> None]
    /\ last = Op("init", "", None, Ok(Unit), NoEffect)
    /\ sanitizer = default_limits
    /\ tainted = None
    /\ verified = None
    /\ sink = VecSinkNew
    /\ trail = AuditTrailNew
    /\ supplied \in FieldStrings
    /\ audit_event = None
    /\ secret = None
    /\ other_http = None
    /\ snapshot = None

NextEvent ==
    \/ \E p \in BOOLEAN, k \in EventKinds, o \in EventOutcomes : EventNew(p, k, o)
    \/ EventWith("with_action", with_action(unwrap(audit_event), supplied))
    \/ EventWith("with_resource_id", with_resource_id(unwrap(audit_event), supplied))
    \/ EventWith("with_method", with_method(unwrap(audit_event), supplied))
    \/ EventWith("with_redacted_url", with_redacted_url(unwrap(audit_event), supplied))
    \/ EventWith("with_body_len", with_body_len(unwrap(audit_event), len(supplied)))

SpecEvent == InitEvent /\ [][NextEvent]_vars

\* http.request_count()
RequestCount ==
    LET b == unwrap(facades["http"]) IN
    /\ is_some(facades["http"])
    /\ last' = Op("request_count", b.ctx, None, Ok(request_count(b.f)), NoEffect)
    /\ UNCHANGED << adapter, gate, ctxs, facades, pipeline >>

\* http.requests()
Requests ==
    LET b == unwrap(facades["http"]) IN
    /\ is_some(facades["http"])
    /\ last' = Op("requests", b.ctx, None, Ok(requests(b.f)), NoEffect)
    /\ UNCHANGED << adapter, gate, ctxs, facades, pipeline >>

\* the verified urls and bodies the host sends: bodies of 1, 2 and 2 bytes
HttpUrls == {new_unchecked(<< "U+0061" >>), new_unchecked(<< "U+00E9" >>)}
HttpBodies ==
    {new_unchecked(<< "U+0061" >>), new_unchecked(<< "U+00E9" >>),
     new_unchecked(<< "U+0061", "U+0061" >>)}

\* the outbound-call facade of a context built with the http requirement
NextHttp ==
    \/ \E p \in OptPrincipals : SetPrincipal(p)
    \/ BuildChain(<< ReqAuthenticated, ReqAuthorized(HTTP) >>)
    \/ Http("ctx")
    \/ \E m \in HttpMethods, u \in HttpUrls, b \in HttpBodies :
          HttpCallWithin(MaxCalls, m, u, b)
    \/ RequestCount
    \/ Requests

SpecHttp == Init /\ [][NextHttp]_vars

\* let secret = Secret::new(value)
SecretWrap(value) ==
    /\ secret' = Some(SecretNew(value))
    /\ last' = Op("secret_new", "", value, Ok(Unit), NoEffect)
    /\ UNCHANGED << adapter, gate, ctxs, facades, sanitizer, tainted, verified,
                    sink, trail, supplied, audit_event, other_http, snapshot >>

\* an operation on &secret that yields a value
SecretRead(op, value) ==
    /\ is_some(secret)
    /\ last' = Op(op, "", None, Ok(value), NoEffect)
    /\ UNCHANGED << adapter, gate, ctxs, facades, pipeline >>

\* the secrets the host wraps: strings of at most MaxSecretLen chars, some of
\* them pieces of the marker
SecretValues == UNION {[1..n -> {"R", "E", "D", "x"}] : n \in 0..MaxSecretLen}

\* a host that wraps secrets and formats them: format!("{:?}", secret),
\* format!("{}", secret), secret.expose_secret()
NextSecret ==
    \/ \E v \in SecretValues : SecretWrap(v)
    \/ SecretRead("fmt_debug", fmt_debug(unwrap(secret)))
    \/ SecretRead("fmt_display", fmt_display(unwrap(secret)))
    \/ SecretRead("expose_secret", expose_secret(unwrap(secret)))

SpecSecret == InitSink /\ [][NextSecret]_vars

\* an http() that hands out the request log of the facade obtained before
HttpOther_shared(c) ==
    LET fresh == http(unwrap(ctxs[c]))
        r == IF fresh.ok /\ is_some(facades["http"])
             THEN Ok(unwrap(facades["http"]).f) ELSE fresh
    IN
    /\ InState(c, "Authorized")
    /\ other_http' = IF r.ok THEN Some([ctx |-> c, f |-> r.val]) ELSE None
    /\ last' = Op("other.http", c, None, r, NoEffect)
    /\ UNCHANGED << adapter, gate, ctxs, facades, sanitizer, tainted, verified,
                    sink, trail, supplied, audit_event, secret, snapshot >>

\* let other = ctx.http()?: a second facade obtained from the context
HttpOther(c) ==
    LET r == http(unwrap(ctxs[c])) IN
    /\ InState(c, "Authorized")
    /\ other_http' = IF r.ok THEN Some([ctx |-> c, f |-> r.val]) ELSE None
    /\ last' = Op("other.http", c, None, r, NoEffect)
    /\ UNCHANGED << adapter, gate, ctxs, facades, sanitizer, tainted, verified,
                    sink, trail, supplied, audit_event, secret, snapshot >>

\* other.get(..) / other.post(..) / ...
HttpOtherCall(method, url, body) ==
    LET b == unwrap(other_http) IN
    /\ is_some(other_http)
    /\ Len(b.f.requests) < MaxRequests
    /\ other_http' = Some([b EXCEPT !.f = http_call(@, method, url, body)])
    /\ last' = Op("other." \o method, b.ctx,
                  IF HasBody(method) THEN << url, body >> ELSE << url >>,
                  Ok(Unit), Some([effect |-> "http", request_id |-> None]))
    /\ UNCHANGED << adapter, gate, ctxs, facades, sanitizer, tainted, verified,
                    sink, trail, supplied, audit_event, secret, snapshot >>

\* other.requests()
RequestsOther ==
    LET b == unwrap(other_http) IN
    /\ is_some(other_http)
    /\ last' = Op("other.requests", b.ctx, None, Ok(requests(b.f)), NoEffect)
    /\ UNCHANGED << adapter, gate, ctxs, facades, pipeline >>

\* two outbound-call facades obtained from one context
NextHttpPair ==
    \/ \E p \in OptPrincipals : SetPrincipal(p)
    \/ BuildChain(<< ReqAuthenticated, ReqAuthorized(HTTP) >>)
    \/ Http("ctx")
    \/ HttpOther("ctx")
    \/ \E m \in CalledMethods : HttpCall(m, VerifiedUrl, VerifiedBody)
    \/ \E m \in CalledMethods : HttpOtherCall(m, VerifiedUrl, VerifiedBody)
    \/ Requests
    \/ RequestsOther

SpecHttpPair == Init /\ [][NextHttpPair]_vars

\* let snapshot = <accumulator>.<method>(): the host keeps the returned Vec
\* (for iter(), the items the iterator yields, in order)
Snap(method, accumulator, value) ==
    /\ snapshot' = Some([of |-> accumulator, value |-> value])
    /\ last' = Op(method, "", None, Ok(value), NoEffect)
    /\ UNCHANGED << adapter, gate, ctxs, facades, sanitizer, tainted, verified,
                    sink, trail, supplied, audit_event, secret, other_http >>

SnapRequests ==
    /\ is_some(facades["http"])
    /\ Snap("snap.http.requests", "http", requests(unwrap(facades["http"]).f))

\* sink.sink(&value) with a Verified value the host holds
SinkVerified(value) ==
    LET o == vec_sink_sink(sink, value) IN
    /\ Len(sink) < MaxSink
    /\ sink' = o.sink
    /\ last' = Op("sink", "", value, o.returned, NoEffect)
    /\ UNCHANGED << adapter, gate, ctxs, facades, sanitizer, tainted, verified, trail, held >>

\* a host that holds an authorized context with its http facade, a VecSink and
\* an AuditTrail
InitSnapshot ==
    LET alice == Some([id |-> "u1", name |-> "Alice"])
        meta == [request_id |-> "req-1", principal |-> alice]
        built == build(require_all(PolicyGateNew(meta),
                                   << ReqAuthenticated, ReqAuthorized(HTTP) >>))
        facade == http(built.val)
    IN  /\ adapter = set_principal(RequestAdapterNew("req-1"), alice)
        /\ gate = None
        /\ ctxs = [c \in CtxIds |-> IF c = "ctx" THEN Some(built.val) ELSE None]
        /\ facades = [k \in FacadeKinds |->
                         IF k = "http" THEN Some([ctx |-> "ctx", f |-> facade.val])
                         ELSE None]
        /\ last = Op("http", "ctx", None, facade, NoEffect)
        /\ sanitizer = default_limits
        /\ tainted = None
        /\ verified = None
        /\ sink = VecSinkNew
        /\ trail = AuditTrailNew
        /\ InitHeld

\* accumulators and the snapshots taken of them
NextSnapshot ==
    \/ \E e \in {f \in AuditEvents : f.kind \in {"AdminAction", "Authentication"}} :
          TrailRecord(e)
    \/ TrailClear
    \/ \E v \in {VerifiedUrl, VerifiedBody} : SinkVerified(v)
    \/ \E m \in CalledMethods : HttpCall(m, VerifiedUrl, VerifiedBody)
    \/ Snap("snap.trail.events", "trail", trail_events(trail))
    \/ Snap("snap.trail.iter", "trail", trail_iter(trail))
    \/ Snap("snap.sink.to_vec", "sink", vec_sink_to_vec(sink))
    \/ Snap("snap.sink.iter", "sink", vec_sink_iter(sink))
    \/ SnapRequests

SpecSnapshot == InitSnapshot /\ [][NextSnapshot]_vars

\* the life of the contexts with the token getters: every transition and
\* accessor of Next, and one operation of each facade
NextTokens ==
    \/ \E p \in OptPrincipals : SetPrincipal(p)
    \/ ExtractUnauthed
    \/ ExtractAuthed
    \/ \E c \in CtxIds, p \in OptPrincipals : Authenticate(c, p)
    \/ \E c \in CtxIds : \E l \in Obtainable("log_cap"), h \in Obtainable("http_cap"),
          a \in Obtainable("audit_cap") : Authorize(c, l, h, a)
    \/ \E calls \in Chains : BuildChain(calls)
    \/ \E c \in CtxIds : Log(c)
    \/ \E c \in CtxIds : Http(c)
    \/ \E c \in CtxIds : Audit(c)
    \/ \E c \in CtxIds : CapGetter(c, "log_cap", log_cap(unwrap(ctxs[c])))
    \/ \E c \in CtxIds : CapGetter(c, "http_cap", http_cap(unwrap(ctxs[c])))
    \/ \E c \in CtxIds : CapGetter(c, "audit_cap", audit_cap(unwrap(ctxs[c])))
    \/ LogEmit("info")
    \/ HttpCall("Post", VerifiedUrl, VerifiedBody)
    \/ AuditEmit(adapter.request_id)

SpecTokens == Init /\ [][NextTokens]_vars

\* the policy gate alone: every sequence of require calls, then build
NextGate ==
    \/ \E p \in OptPrincipals : SetPrincipal(p)
    \/ GateNew
    \/ \E req \in PolicyReqs : Require(req)
    \/ Build

SpecGate == Init /\ [][NextGate]_vars

\* ------------------------------------------------------------------------
\* Properties
\* ------------------------------------------------------------------------
CapField(k) ==
    CASE k = "log" -> "log_cap" [] k = "http" -> "http_cap" [] k = "audit" -> "audit_cap"
MissingKind(k) ==
    CASE k = "log" -> "MissingLogCapability"
      [] k = "http" -> "MissingHttpCapability"
      [] k = "audit" -> "MissingAuditCapability"

TokensInExistence ==
    {k \in FacadeKinds :
        \E c \in CtxIds : is_some(ctxs[c]) /\ is_some(unwrap(ctxs[c])[CapField(k)])}

C2_OnlyBuildMints ==
    [][TokensInExistence' # TokensInExistence =>
         /\ TokensInExistence \subseteq TokensInExistence'
         /\ last'.op = "build"
         /\ last'.result.ok]_vars

C2_Witness ==
    /\ InState("extraction", "Authorized")
    /\ is_some(unwrap(ctxs["extraction"]).audit_cap)
    /\ last.op = "authorize"

\* the requirements of a gate, as a set
Required(g) == {g.requirements[i] : i \in 1..Len(g.requirements)}

\* C3: a build on a gate with at least one requirement (Authenticated or
\* Authorized for any action) whose RequestMeta has no principal fails with
\* kind Unauthenticated and binds no context.
C3_NoPrincipalFailsUnauthenticated ==
    (/\ last.op = "build"
     /\ is_none(last.arg.meta.principal)
     /\ last.arg.requirements # << >>)
    => /\ ~ last.result.ok
       /\ last.result.val.kind = "Unauthenticated"
       /\ is_none(ctxs["ctx"])

C3_Witness ==
    /\ last.op = "build"
    /\ is_none(last.arg.meta.principal)
    /\ last.arg.requirements = << ReqAuthorized("db") >>
    /\ ~ last.result.ok

\* C4: build never succeeds for a RequestMeta without a principal: every
\* context returned by build, for any sequence of require calls (none
\* included), carries a principal.
C4_BuiltContextHasPrincipal ==
    (last.op = "build" /\ last.result.ok)
    => /\ is_some(last.arg.meta.principal)
       /\ is_some(last.result.val.principal)

\* C5: after a successful build each of the log, http and audit tokens is on
\* the returned context exactly when Authorized for the action of that name
\* is among the requirements; other action names grant none of the three.
C5_TokenIffRequired ==
    (last.op = "build" /\ last.result.ok)
    => /\ last.result.val = unwrap(ctxs["ctx"])
       /\ \A k \in FacadeKinds :
             is_some(last.result.val[CapField(k)])
             <=> ReqAuthorized(k) \in Required(last.arg)

C5_Witness ==
    /\ last.op = "build"
    /\ last.result.ok
    /\ last.arg.requirements = << ReqAuthorized("db"), ReqAuthorized(HTTP) >>
    /\ is_some(unwrap(ctxs["ctx"]).http_cap)
    /\ is_none(unwrap(ctxs["ctx"]).log_cap)

\* C6: with a principal present (any id and name), build succeeds for every
\* sequence of Authenticated / Authorized requirements.
C6_PrincipalPresentBuildSucceeds ==
    (last.op = "build" /\ is_some(last.arg.meta.principal))
    => /\ last.result.ok
       /\ last.result.val.state = "Authorized"
       /\ last.result.val.principal = last.arg.meta.principal

C6_Witness ==
    /\ last.op = "build"
    /\ last.arg.meta.principal = Some([id |-> "u2", name |-> "Bob"])
    /\ last.arg.requirements = << ReqAuthorized("db"), ReqAuthenticated >>
    /\ last.result.ok

\* C7: on an Authorized context log(), http() and audit() each succeed
\* exactly when the token of their own kind is present, returning the facade
\* of that kind, and otherwise fail with MissingLogCapability,
\* MissingHttpCapability or MissingAuditCapability respectively; tokens of the
\* other kinds do not count.
C7_AccessorNeedsOwnToken ==
    last.op \in FacadeKinds
    => /\ InState(last.ctx, "Authorized")
       /\ last.result.ok <=> is_some(unwrap(ctxs[last.ctx])[CapField(last.op)])
       /\ ~ last.result.ok => last.result.val.kind = MissingKind(last.op)
       /\ last.result.ok => last.result.val.kind = last.op

C7_Witness ==
    /\ last.op = "http"
    /\ ~ last.result.ok
    /\ last.result.val.kind = "MissingHttpCapability"
    /\ is_some(unwrap(ctxs[last.ctx]).log_cap)
    /\ is_some(unwrap(ctxs[last.ctx]).audit_cap)

\* the state a binding holds, "None" when it holds no context
StateOf(c) == IF is_some(ctxs[c]) THEN unwrap(ctxs[c]).state ELSE "None"

C9_AuthenticateChecksPrincipal ==
    [][/\ (last'.op = "authenticate" /\ InState(last'.ctx, "Unauthed")) =>
            LET self == unwrap(ctxs[last'.ctx])
                r == last'.result
            IN  IF is_none(last'.arg)
                THEN /\ ~ r.ok
                     /\ r.val.kind = "Unauthenticated"
                     /\ is_none(ctxs'[last'.ctx])
                ELSE /\ r.ok
                     /\ r.val.state = "Authed"
                     /\ r.val.principal = last'.arg
                     /\ r.val.request_id = self.request_id
                     /\ ctxs'[last'.ctx] = Some(r.val)
       /\ last'.op = "extract_authed" =>
            /\ ~ last'.result.ok <=> is_none(adapter.principal)
            /\ ~ last'.result.ok =>
                  /\ last'.result.val.kind = "Unauthenticated"
                  /\ is_none(ctxs'["extraction"])
            /\ last'.result.ok =>
                  /\ last'.result.val.state = "Authed"
                  /\ last'.result.val.principal = adapter.principal
                  /\ ctxs'["extraction"] = Some(last'.result.val)]_vars

C9_Witness ==
    /\ last.op = "authenticate"
    /\ last.result.ok
    /\ last.arg = Some([id |-> "u2", name |-> "Bob"])
    /\ adapter.principal = Some([id |-> "u1", name |-> "Alice"])
    /\ unwrap(ctxs[last.ctx]).principal = last.arg

\* C10: the request id never changes: the context build returns, the contexts
\* authenticate and authorize produce, and the log facade obtained from a
\* context (so each log emission) all report the request id of the originating
\* RequestMeta.
C10_RequestIdImmutable ==
    /\ \A c \in CtxIds :
          is_some(ctxs[c]) => unwrap(ctxs[c]).request_id = adapter.request_id
    /\ (last.op \in {"build", "authenticate", "extract_authed"} /\ last.result.ok)
          => last.result.val.request_id = adapter.request_id
    /\ (last.op = "log" /\ last.result.ok)
          => last.result.val.request_id = adapter.request_id
    /\ is_some(facades["log"])
          => unwrap(facades["log"]).f.request_id = adapter.request_id
    /\ (is_some(last.emitted) /\ unwrap(last.emitted).effect = "log")
          => unwrap(last.emitted).request_id = adapter.request_id

C10_Witness ==
    /\ adapter.request_id = "req-2"
    /\ InState("ctx", "Authorized")
    /\ is_some(facades["log"])
    /\ unwrap(facades["log"]).ctx = "extraction"
    /\ unwrap(facades["log"]).f.request_id = "req-2"
    /\ last.op = "warn"

\* C11: after any sequence of require calls the requirement list holds no two
\* structurally equal requirements; requiring a requirement that is already
\* present leaves the list unchanged (so N >= 1 additions leave exactly one
\* occurrence), and requiring a new one appends it.
NoDuplicates(reqs) ==
    \A i, j \in 1..Len(reqs) : i # j => ~ same_requirement(reqs[i], reqs[j])

Occurrences(reqs, req) ==
    Cardinality({i \in 1..Len(reqs) : reqs[i] = req})

C11_RequireDeduplicates ==
    [][(last'.op = "require" /\ is_some(gate) /\ is_some(gate')) =>
          LET old == unwrap(gate).requirements
              new == unwrap(gate').requirements
              req == last'.arg
          IN  /\ NoDuplicates(new)
              /\ Occurrences(new, req) = 1
              /\ req \in Required(unwrap(gate)) => new = old
              /\ req \notin Required(unwrap(gate)) => new = Append(old, req)]_vars

C11_Witness ==
    /\ last.op = "require"
    /\ last.arg = ReqAuthorized(LOG)
    /\ is_some(gate)
    /\ unwrap(gate).requirements = << ReqAuthorized(LOG), ReqAuthenticated >>

\* the orderings of a requirement list
Reorderings(reqs) ==
    {[i \in 1..Len(reqs) |-> reqs[f[i]]] :
        f \in {g \in [1..Len(reqs) -> 1..Len(reqs)] :
                 \A i, j \in 1..Len(reqs) : i # j => g[i] # g[j]}}

\* C12: for a fixed RequestMeta, a build from any reordering of the same
\* requirements has the same outcome: both succeed, with the same tokens, or
\* both fail.
C12_OrderIrrelevant ==
    last.op = "build" =>
       \A reqs \in Reorderings(last.arg.requirements) :
          LET other == build([last.arg EXCEPT !.requirements = reqs])
          IN  /\ other.ok = last.result.ok
              /\ other.ok =>
                    \A k \in FacadeKinds :
                       is_some(other.val[CapField(k)])
                       <=> is_some(last.result.val[CapField(k)])

C12_Witness ==
    /\ last.op = "build"
    /\ last.result.ok
    /\ last.arg.requirements = << ReqAuthorized("db"), ReqAuthorized(AUDIT) >>
    /\ is_some(last.result.val.audit_cap)

\* the positions of s that hold no whitespace
NonWhitespace(s) == {i \in 1..Len(s) : ~ is_whitespace(s[i])}

\* s without its leading and trailing whitespace: the part from its first to
\* its last non-whitespace char
Stripped(s) ==
    LET keep == NonWhitespace(s)
    IN  IF keep = {} THEN << >>
        ELSE SubSeq(s, CHOOSE i \in keep : \A j \in keep : i <= j,
                       CHOOSE i \in keep : \A j \in keep : i >= j)

\* the length of s as String::len reports it: UTF-8 bytes
Bytes(s) == Len(s) + Cardinality({i \in 1..Len(s) : len_utf8(s[i]) = 2})

ControlFree(s) == \A i \in 1..Len(s) : ~ is_control(s[i])

\* C13: for every string with no control character, non-empty after trimming
\* and whose trimmed length (String::len) is within max_len, sanitize returns
\* Ok with a Verified value equal to the input without its leading and
\* trailing whitespace, interior whitespace kept.
C13_ValidInputIsTrimmedOnly ==
    (/\ last.op = "sanitize"
     /\ ControlFree(last.arg.tainted)
     /\ Stripped(last.arg.tainted) # << >>
     /\ Bytes(Stripped(last.arg.tainted)) <= sanitizer.max_len)
    => /\ last.result = Ok(new_unchecked(Stripped(last.arg.tainted)))
       /\ verified = Some(last.result.val)

C13_Witness ==
    /\ last.op = "sanitize"
    /\ last.arg.tainted = << "U+0020", "U+0061", "U+0020", "U+0061", "U+0020" >>
    /\ last.result.ok
    /\ as_ref(last.result.val) = << "U+0061", "U+0020", "U+0061" >>

\* C14: for every string with a control character (C0, DEL or C1) inside its
\* trimmed content, sanitize fails with kind ContainsControlChars, whatever
\* the length of the string.
C14_ControlCharsRejected ==
    (/\ last.op = "sanitize"
     /\ \E i \in 1..Len(last.arg.tainted) :
           /\ is_control(last.arg.tainted[i])
           /\ \E j, k \in NonWhitespace(last.arg.tainted) : j <= i /\ i <= k)
    => /\ ~ last.result.ok
       /\ last.result.val.kind = "ContainsControlChars"

C14_Witness ==
    /\ last.op = "sanitize"
    /\ last.arg.tainted = << "U+0061", "U+0085", "U+0061", "U+0061", "U+0061" >>
    /\ sanitizer.max_len = 1
    /\ ~ last.result.ok
    /\ last.result.val.kind = "ContainsControlChars"

\* C15 as stated: for every max_len >= 1 a control-free string of length
\* exactly max_len is accepted, one of length max_len + 1 fails with kind
\* TooLong, and no Verified string returned is longer than max_len.
C15_BoundaryOnInput ==
    (last.op = "sanitize" /\ ControlFree(last.arg.tainted))
    => /\ Bytes(last.arg.tainted) = sanitizer.max_len => last.result.ok
       /\ Bytes(last.arg.tainted) = sanitizer.max_len + 1
             => (~ last.result.ok /\ last.result.val.kind = "TooLong")
       /\ last.result.ok => Bytes(as_ref(last.result.val)) <= sanitizer.max_len

\* C15 amended: the boundary is on the trimmed content, measured in bytes: a
\* control-free string whose trimmed content is exactly max_len bytes long is
\* accepted, one whose trimmed content is max_len + 1 bytes long fails with
\* kind TooLong, and no Verified string returned is longer than max_len bytes.
C15_BoundaryOnTrimmed ==
    (last.op = "sanitize" /\ ControlFree(last.arg.tainted))
    => /\ Bytes(Stripped(last.arg.tainted)) = sanitizer.max_len => last.result.ok
       /\ Bytes(Stripped(last.arg.tainted)) = sanitizer.max_len + 1
             => (~ last.result.ok /\ last.result.val.kind = "TooLong")
       /\ last.result.ok => Bytes(as_ref(last.result.val)) <= sanitizer.max_len

C15_Witness ==
    /\ last.op = "sanitize"
    /\ sanitizer.max_len = MaxLen
    /\ Bytes(Stripped(last.arg.tainted)) = MaxLen + 1
    /\ Bytes(last.arg.tainted) = MaxLen + 2
    /\ last.arg.tainted[2] = "U+00E9"
    /\ ~ last.result.ok
    /\ last.result.val.kind = "TooLong"

\* C16: sanitizing is idempotent: sanitizing the content of a Verified value
\* again with the same sanitizer succeeds and returns the same content.
C16_SanitizeIdempotent ==
    [][(last.op = "retaint" /\ last'.op = "sanitize") =>
          /\ last'.arg = TaintedNew(as_ref(unwrap(verified)))
          /\ last'.result.ok
          /\ as_ref(last'.result.val) = as_ref(unwrap(verified))
          /\ verified' = verified]_vars

C16_Witness ==
    /\ last.op = "sanitize"
    /\ last.result.ok
    /\ last.arg.tainted = << "U+0061", "U+0020", "U+0061" >>
    /\ verified = Some(new_unchecked(last.arg.tainted))
    /\ sanitizer.max_len = MaxLen

\* inputs to compare a rejected input with, two for each kind of failure:
\* empty and blank, a lone control char and one after a letter, and strings
\* one char longer than max_len allows
Probes(max_len) ==
    {<< >>, << "U+0020" >>,
     << "U+0000" >>, << "U+0061", "U+007F" >>,
     [i \in 1..(max_len + 1) |-> "U+0061"],
     [i \in 1..(max_len + 1) |-> "U+00E9"]}

\* C17: a SanitizationError depends only on the failure kind and on max_len:
\* any other input the same sanitizer rejects with the same kind yields the
\* identical error, so the message cannot contain the rejected value.
C17_ErrorIndependentOfInput ==
    (last.op = "sanitize" /\ ~ last.result.ok)
    => /\ \E other \in Probes(sanitizer.max_len) :
             sanitize(sanitizer, TaintedNew(other)).val.kind = last.result.val.kind
       /\ \A other \in Probes(sanitizer.max_len) :
             LET r == sanitize(sanitizer, TaintedNew(other))
             IN  (~ r.ok /\ r.val.kind = last.result.val.kind)
                 => r.val = last.result.val

C17_Witness ==
    /\ last.op = "sanitize"
    /\ ~ last.result.ok
    /\ last.result.val.kind = "TooLong"
    /\ last.arg.tainted = << "U+00E9", "U+00E9", "U+00E9" >>
    /\ last.result.val.message = << "input exceeds maximum length of ", 2 >>

\* C18: sink_untrusted, for any tainted value and in any sink state, fails
\* with kind Unverified and leaves the contents and the length of the sink as
\* they were before the call.
C18_SinkUntrustedRejects ==
    [][last'.op = "sink_untrusted" =>
          /\ ~ last'.result.ok
          /\ last'.result.val.kind = "Unverified"
          /\ sink' = sink
          /\ vec_sink_len(sink') = vec_sink_len(sink)]_vars

C18_Witness ==
    /\ last.op = "sink_untrusted"
    /\ last.arg = TaintedNew(<< "U+0061" >>)
    /\ sink = << << "U+00E9" >>, << "U+0061" >> >>
    /\ ~ last.result.ok

\* C19: the contents of a VecSink are the values passed to sink(), in call
\* order: each sink() call succeeds and appends its value at the end, no other
\* operation changes the contents, and len() is the number of values sunk.
C19_SinkAppendsInOrder ==
    [][/\ last'.op = "sink" =>
             /\ last'.result.ok
             /\ sink' = Append(sink, as_ref(last'.arg))
       /\ sink' # sink => last'.op = "sink"
       /\ last'.op = "len" => last'.result.val = Len(sink)
       /\ last'.op = "is_empty" => (last'.result.val <=> Len(sink) = 0)]_vars

C19_Witness ==
    /\ last.op = "sink"
    /\ last.arg = new_unchecked(<< "U+00E9" >>)
    /\ sink = << << "U+0061" >>, << "U+0061" >>, << "U+00E9" >> >>

\* C20: an AuditTrail is append-only and in order: record and
\* emit_and_record each append exactly their event at the end, clear removes
\* every event and is the only operation that removes any, and every other
\* operation (emit, len, is_empty, iter, events, with_events) leaves the
\* sequence unchanged and reports it as it is.
C20_TrailAppendOnly ==
    [][/\ last'.op \in {"record", "emit_and_record"} =>
             trail' = Append(trail, last'.arg)
       /\ last'.op = "clear" => trail' = << >>
       /\ trail' # trail => last'.op \in {"record", "emit_and_record", "clear"}
       /\ last'.op \in {"trail_events", "trail_iter"} => last'.result.val = trail
       /\ last'.op \in {"trail_len", "trail_with_events"} =>
             last'.result.val = Len(trail)
       /\ last'.op = "trail_is_empty" => (last'.result.val <=> Len(trail) = 0)]_vars

C20_Witness ==
    /\ last.op = "emit_and_record"
    /\ Len(trail) = 2
    /\ trail[2] = last.arg
    /\ trail[1] # trail[2]
    /\ trail[1].kind = "Authentication"
    /\ trail[1].request_id = << "U+0061", "U+0020" >>

\* ------------------------------------------------------------------------
\* C21: every string field of an AuditEvent built through new and the with_*
\* setters holds no control character: it has as many characters as the
\* supplied string, a space wherever the supplied string has a control
\* character, and the supplied character everywhere else
\* ------------------------------------------------------------------------
StringFields(e) ==
    {e.request_id} \cup
    {unwrap(e[f]) : f \in {g \in {"principal", "action", "resource_id", "method",
                                   "redacted_url"} : is_some(e[g])}}

C21_FieldsScrubbed ==
    is_some(audit_event) =>
        \A field \in StringFields(unwrap(audit_event)) :
            /\ \A i \in 1..Len(field) :
                   field[i] \notin {"U+000A", "U+0085", "U+0000", "U+007F"}
            /\ Len(field) = Len(supplied)
            /\ \A i \in 1..Len(supplied) :
                   field[i] = IF supplied[i] \in {"U+000A", "U+0085", "U+0000", "U+007F"}
                              THEN "U+0020" ELSE supplied[i]

C21_Witness ==
    /\ supplied = << "U+0061", "U+000A" >>
    /\ is_some(audit_event)
    /\ unwrap(audit_event).request_id = << "U+0061", "U+0020" >>
    /\ \A f \in {"principal", "action", "resource_id", "method", "redacted_url"} :
           unwrap(audit_event)[f] = Some(<< "U+0061", "U+0020" >>)

\* ------------------------------------------------------------------------
\* C22: each get / post / put / patch / delete call appends exactly one record
\* after the records already made; the record holds the method, the url and
\* the body length and nothing else (0 for get and delete, the byte length of
\* the body otherwise); request_count goes up by one with each call, starts
\* at 0 on a new facade and is changed by nothing else
\* ------------------------------------------------------------------------
C22_OneRecordPerCall ==
    [][LET old == unwrap(facades["http"]).f.requests
           new == unwrap(facades'["http"]).f.requests
           rec == new[Len(new)]
       IN  /\ last'.op \in HttpMethods =>
                 /\ Len(new) = Len(old) + 1
                 /\ SubSeq(new, 1, Len(old)) = old
                 /\ DOMAIN rec = {"method", "url", "body_len"}
                 /\ rec.method = last'.op
                 /\ rec.url = last'.arg[1].verified
                 /\ rec.body_len = IF last'.op \in {"Get", "Delete"} THEN 0
                                   ELSE Bytes(last'.arg[2].verified)
           /\ (last'.op = "http" /\ last'.result.ok) => new = << >>
           /\ last'.op = "request_count" =>
                 /\ last'.result.val = Len(old)
                 /\ new = old
           /\ (last'.op \notin HttpMethods \cup {"http"} /\ is_some(facades["http"])) =>
                 facades'["http"] = facades["http"]]_vars

C22_Witness ==
    /\ last.op = "Delete"
    /\ is_some(facades["http"])
    /\ unwrap(facades["http"]).f.requests =
          << [method |-> "Post", url |-> << "U+0061" >>, body_len |-> 2],
             [method |-> "Delete", url |-> << "U+00E9" >>, body_len |-> 0] >>

\* ------------------------------------------------------------------------
\* C23: once a call has been made on an outbound-call facade, every request
\* it has recorded carries the request id of the context the facade was
\* obtained from, and the facade reports that same request id
\* ------------------------------------------------------------------------
C23_RequestsCarryRequestId ==
    (last.op \in HttpMethods /\ is_some(facades["http"])) =>
        LET b == unwrap(facades["http"])
            id == unwrap(ctxs[b.ctx]).request_id
        IN  /\ \A i \in 1..Len(b.f.requests) :
                   /\ "request_id" \in DOMAIN b.f.requests[i]
                   /\ b.f.requests[i].request_id = id
            /\ "request_id" \in DOMAIN b.f
            /\ b.f.request_id = id

C25_OutputNeverContainsValue ==
    last.op \in {"fmt_debug", "fmt_display"} =>
        /\ last.result.val = << "[", "R", "E", "D", "A", "C", "T", "E", "D", "]" >>
        /\ ~ contains(last.result.val, expose_secret(unwrap(secret)))

\* C25 as amended: debug and display formatting of a Secret yield exactly the
\* marker "[REDACTED]" whatever the wrapped value, so any two Secrets format
\* identically; the output contains the text of the wrapped value only when
\* that text is a piece of the marker itself
C25_OutputIsMarkerOnly ==
    last.op \in {"fmt_debug", "fmt_display"} =>
        /\ last.result.val = << "[", "R", "E", "D", "A", "C", "T", "E", "D", "]" >>
        /\ \A v \in SecretValues :
               /\ fmt_debug(SecretNew(v)) = last.result.val
               /\ fmt_display(SecretNew(v)) = last.result.val
        /\ contains(last.result.val, expose_secret(unwrap(secret)))
              => expose_secret(unwrap(secret)) \in
                    {<< >>} \cup {SubSeq(Redacted, i, j) : i, j \in 1..Len(Redacted)}

C25_Witness ==
    /\ last.op = "fmt_debug"
    /\ secret = Some(SecretNew(<< "x", "E", "D" >>))
    /\ last.result.val = Redacted

\* ------------------------------------------------------------------------
\* C26: a failing build returns the Violation of the earliest requirement
\* that fails, in the order the requirements were accumulated; what follows
\* that requirement has no part in the result; no context is bound and no
\* token comes into existence
\* ------------------------------------------------------------------------
C26_FirstViolationWins ==
    [][(last'.op = "build" /\ ~ last'.result.ok) =>
          LET g == last'.arg
              reqs == g.requirements
              unmet == {i \in 1..Len(reqs) : is_none(g.meta.principal)}
              first == CHOOSE i \in unmet : \A j \in unmet : i <= j
          IN  /\ unmet # {}
              /\ last'.result.val =
                    Violation("Unauthenticated",
                              IF reqs[first].tag = "Authenticated"
                              THEN "Authentication required"
                              ELSE "Cannot authorize unauthenticated principal")
              /\ last'.result = build([g EXCEPT !.requirements = SubSeq(reqs, 1, first)])
              /\ ctxs' = ctxs
              /\ is_none(ctxs'["ctx"])
              /\ TokensInExistence' = TokensInExistence]_vars

C26_Witness ==
    /\ last.op = "build"
    /\ ~ last.result.ok
    /\ last.arg.requirements = << ReqAuthorized(LOG), ReqAuthenticated >>
    /\ last.result.val.message = "Cannot authorize unauthenticated principal"
    /\ is_none(ctxs["ctx"])

\* ------------------------------------------------------------------------
\* C27: sanitize decides on the trimmed string, in the order Empty,
\* ContainsControlChars, TooLong, and reports the first check that fails:
\* whitespace alone (line feeds and next-line chars included) is Empty, a
\* control character in the trimmed content wins over an excess of length,
\* and TooLong is reported only for control-free content
\* ------------------------------------------------------------------------
C27_ChecksInFixedOrder ==
    last.op = "sanitize" =>
        LET t == Stripped(last.arg.tainted)
            kind == IF last.result.ok THEN "Ok" ELSE last.result.val.kind
        IN  kind = IF t = << >> THEN "Empty"
                   ELSE IF ~ ControlFree(t) THEN "ContainsControlChars"
                   ELSE IF Bytes(t) > sanitizer.max_len THEN "TooLong"
                   ELSE "Ok"

C27_Witness ==
    /\ last.op = "sanitize"
    /\ last.arg.tainted = << "U+0020", "U+0061", "U+0000", "U+0061", "U+000A" >>
    /\ sanitizer.max_len = 2
    /\ ~ last.result.ok
    /\ last.result.val.kind = "ContainsControlChars"

\* ------------------------------------------------------------------------
\* C28: a context in the Unauthed or Authed state holds no token; a context
\* becomes Authorized only through authorize or build, with the tokens that
\* call decides; from then on no operation (the facade accessors, the token
\* getters and the facades' own operations included) changes its tokens, its
\* principal or its request id
\* ------------------------------------------------------------------------
TokenSet(ctx) == {k \in FacadeKinds : is_some(ctx[CapField(k)])}

C28_TokensFixedAtAuthorize ==
    /\ [](\A c \in CtxIds :
             (InState(c, "Unauthed") \/ InState(c, "Authed"))
                => TokenSet(unwrap(ctxs[c])) = {})
    /\ [][\A c \in CtxIds :
             /\ (~ InState(c, "Authorized") /\ InState(c, "Authorized")') =>
                   /\ last'.op \in {"authorize", "build"}
                   /\ last'.ctx = c
                   /\ last'.op = "authorize" =>
                         /\ unwrap(ctxs'[c]).log_cap = last'.arg[1]
                         /\ unwrap(ctxs'[c]).http_cap = last'.arg[2]
                         /\ unwrap(ctxs'[c]).audit_cap = last'.arg[3]
                   /\ last'.op = "build" => ctxs'[c] = Some(last'.result.val)
             /\ InState(c, "Authorized") =>
                   /\ InState(c, "Authorized")'
                   /\ TokenSet(unwrap(ctxs'[c])) = TokenSet(unwrap(ctxs[c]))
                   /\ unwrap(ctxs'[c]).principal = unwrap(ctxs[c]).principal
                   /\ unwrap(ctxs'[c]).request_id = unwrap(ctxs[c]).request_id]_vars

C28_Witness ==
    /\ last.op = "http_cap"
    /\ last.ctx = "ctx"
    /\ last.result.val = Some(HttpCapNew)
    /\ TokenSet(unwrap(ctxs["ctx"])) = {"http", "audit"}
    /\ InState("extraction", "Authed")
    /\ is_some(facades["http"])
    /\ unwrap(facades["http"]).f.requests # << >>

\* ------------------------------------------------------------------------
\* C29: every successful http() on an Authorized context hands out a facade
\* whose request log is empty, whatever the facades obtained before have
\* recorded; a call on one facade adds to that facade's log and leaves the
\* log of the other facade of the same context as it was, and requests()
\* returns the log of the facade it is called on
\* ------------------------------------------------------------------------
C29_FacadesDoNotShareLog ==
    [][/\ (last'.op = "http" /\ last'.result.ok) =>
             /\ unwrap(facades'["http"]).f.requests = << >>
             /\ other_http' = other_http
       /\ (last'.op = "other.http" /\ last'.result.ok) =>
             /\ unwrap(other_http').f.requests = << >>
             /\ facades' = facades
       /\ last'.op \in HttpMethods =>
             /\ Len(unwrap(facades'["http"]).f.requests)
                   = Len(unwrap(facades["http"]).f.requests) + 1
             /\ other_http' = other_http
       /\ last'.op \in {"other." \o m : m \in HttpMethods} =>
             /\ Len(unwrap(other_http').f.requests)
                   = Len(unwrap(other_http).f.requests) + 1
             /\ facades' = facades
       /\ last'.op = "requests" =>
             last'.result.val = unwrap(facades["http"]).f.requests
       /\ last'.op = "other.requests" =>
             last'.result.val = unwrap(other_http).f.requests]_vars

C29_Witness ==
    /\ last.op = "other.requests"
    /\ is_some(facades["http"])
    /\ is_some(other_http)
    /\ unwrap(facades["http"]).ctx = unwrap(other_http).ctx
    /\ Len(unwrap(facades["http"]).f.requests) = 1
    /\ unwrap(facades["http"]).f.requests[1].method = "Post"
    /\ unwrap(other_http).f.requests = << >>
    /\ last.result.val = << >>

\* ------------------------------------------------------------------------
\* C30: the Vec returned by AuditTrail::events() / iter(), VecSink::to_vec()
\* / iter() or PolicyHttp::requests() equals the accumulator's sequence at the
\* moment of the call, the call leaves the accumulator as it was, and no
\* later record, clear, sink or outbound call changes the Vec the host holds
\* ------------------------------------------------------------------------
C30_SnapshotsAreFixed ==
    [][/\ last'.op \in {"snap.trail.events", "snap.trail.iter"} =>
             /\ snapshot' = Some([of |-> "trail", value |-> trail])
             /\ last'.result.val = trail
             /\ trail' = trail
       /\ last'.op \in {"snap.sink.to_vec", "snap.sink.iter"} =>
             /\ snapshot' = Some([of |-> "sink", value |-> sink])
             /\ last'.result.val = sink
             /\ sink' = sink
       /\ last'.op = "snap.http.requests" =>
             /\ snapshot' = Some([of |-> "http",
                                  value |-> unwrap(facades["http"]).f.requests])
             /\ last'.result.val = unwrap(facades["http"]).f.requests
             /\ facades' = facades
       /\ last'.op \notin {"snap.trail.events", "snap.trail.iter", "snap.sink.to_vec",
                           "snap.sink.iter", "snap.http.requests"} =>
             snapshot' = snapshot]_vars

C30_Witness ==
    /\ last.op = "clear"
    /\ trail = << >>
    /\ is_some(snapshot)
    /\ unwrap(snapshot).of = "trail"
    /\ Len(unwrap(snapshot).value) = 2
    /\ unwrap(snapshot).value[1].kind = "Authentication"
    /\ unwrap(snapshot).value[2].kind = "AdminAction"

====
